---- MODULE Spec2Model ----
(***************************************************************************)
(* Model of codepile/usenet/usenet.py (UsenetDataset.process) and of the   *)
(* thread reconstruction pipeline it calls through mbox.process_forum.     *)
(*                                                                         *)
(*   Spec          one sequential run of UsenetDataset.process             *)
(*   SpecPar       the per-directory body of process run by several        *)
(*                 workers that share config.tmpdir                        *)
(*   SpecAssemble  ThreadAssembler.assemble on bounded record sets         *)
(*   SpecFilter    ContentFilter.filter and ThreadExporter on bounded      *)
(*                 threads                                                 *)
(***************************************************************************)
EXTENDS Integers, Sequences, FiniteSets, TLC

\* ---------------------------------------------------------------- bounds
MaxDirs == 2
MaxFiles == 2
MaxThreads == 2
MaxFailures == 2
MaxRecords == 2
MaxRefs == 1
MaxTime == 3
MaxThreadLen == 3

Dirs == 1..MaxDirs

\* ------------------------------------------------------------ file names
Letters == <<"a", "b", "c", "d", "e", "f", "g", "z">>

MboxGzSuffix == <<".", "m", "b", "o", "x", ".", "g", "z">>

MboxSuffix == <<".", "m", "b", "o", "x">>

\* Entry k of a usenet directory: entry 0 is a file that is no archive,
\* entries 1.. are archives "<letter>.mbox.gz".
RawName(k) == IF k = 0 THEN <<"R", "E", "A", "D", "M", "E">>
              ELSE <<Letters[((k - 1) % Len(Letters)) + 1]>> \o MboxGzSuffix

\* str.endswith
EndsWith(s, suf) ==
    /\ Len(s) >= Len(suf)
    /\ SubSeq(s, Len(s) - Len(suf) + 1, Len(s)) = suf

\* str.rstrip(chars): drops every trailing character that is in chars.
RECURSIVE RStrip(_, _)
RStrip(s, chars) ==
    IF s # <<>> /\ s[Len(s)] \in chars
    THEN RStrip(SubSeq(s, 1, Len(s) - 1), chars)
    ELSE s

\* filename = os.path.basename(file.rstrip('.gz'))
ScratchName(file) == RStrip(file, {".", "g", "z"})

\* The number of threads mbox.process_forum finds in archive k of directory d
\* (the content of the raw data, fixed for a run).
ThreadsIn(d, k) == (d + k) % (MaxThreads + 1)

VARIABLES
    mode,        \* which specification runs: "run", "par", "assemble", "filter"
    \* ---- UsenetDataset.process
    pc,          \* position in process
    nfiles,      \* raw layout: directory d holds entries 0..nfiles[d]
    outDirExists,\* os.path.exists(config.output_data_dir)
    ensured,     \* lines 73-74 have run
    logCreated,  \* the log file exists (line 67)
    automaton,   \* 0: not built; k: the k-th automaton built in this run
    usedAut,     \* automata passed to mbox.process_forum
    dir,         \* usenet_dir of the current iteration (0: none)
    gz,          \* next entry of the directory to look at (line 86)
    tmp,         \* content of config.tmpdir: {[name, src, k]}
    procQueue,   \* glob of tmpdir still to iterate (line 98)
    cur,         \* the scratch file of the current iteration
    threads,     \* len(threads) of the current file
    handed,      \* what pq.write_to_dataset received: {[out, file, src, n]}
    log,         \* lines of the log file: <<[kind, file, dir, n, msg]>>
    found,       \* .mbox files the loop of line 98 has started on: {[dir, file, src]}
    touched,     \* some scratch or archive file has been cleared or opened
    caught,      \* failures caught so far by the except of line 123
    abortCause,  \* "none", or the step whose exception left process
    \* ---- workers sharing config.tmpdir
    wk,          \* worker -> [pc, gz, queue, cur] of its run of the loop body
    interfered,  \* {[how, by, owner]}: worker by deleted, overwrote or processed
                 \* a scratch file that worker owner decompressed
    \* ---- thread pipeline
    records,     \* id -> MailRecord
    parent,      \* id -> resolved parent id (0: root)
    orphan,      \* id -> orphan flag
    order,       \* id -> the ordered sequence of ids of the record's thread
    thread,      \* the thread handed to ContentFilter: its ids in export order
    marks,       \* position -> "Kept" | "Dropped"
    exported,    \* exported ids, in order
    meta,        \* exported metadata
    tpc          \* position in the pipeline

procVars == <<pc, nfiles, outDirExists, ensured, logCreated, automaton, usedAut,
              dir, gz, tmp, procQueue, cur, threads, handed, log, found,
              touched, caught, abortCause>>
parVars == <<wk, interfered>>
threadVars == <<records, parent, orphan, order, thread, marks, exported, meta, tpc>>
vars == <<mode, procVars, parVars, threadVars>>

NoFile == [name |-> <<>>, src |-> 0, k |-> 0]

IdleProc ==
    /\ pc = "idle" /\ nfiles = [d \in Dirs |-> 0] /\ outDirExists = TRUE
    /\ ensured = FALSE /\ logCreated = FALSE /\ automaton = 0 /\ usedAut = {}
    /\ dir = 0 /\ gz = 0 /\ tmp = {} /\ procQueue = <<>> /\ cur = NoFile
    /\ threads = 0 /\ handed = {} /\ log = <<>> /\ found = {}
    /\ touched = FALSE /\ caught = 0 /\ abortCause = "none"

IdlePar == wk = <<>> /\ interfered = {}

IdleThread ==
    /\ records = <<>> /\ parent = <<>> /\ orphan = <<>> /\ order = <<>>
    /\ thread = <<>>
    /\ marks = <<>> /\ exported = <<>> /\ meta = <<>> /\ tpc = "idle"

\* ======================================================================
\* UsenetDataset.process, sequential
\* ======================================================================
Init ==
    /\ mode = "run"
    /\ pc = "start"
    /\ nfiles \in [Dirs -> 0..MaxFiles]
    /\ outDirExists \in BOOLEAN
    /\ ensured = FALSE /\ logCreated = FALSE /\ automaton = 0 /\ usedAut = {}
    /\ dir = 0 /\ gz = 0 /\ tmp = {} /\ procQueue = <<>> /\ cur = NoFile
    /\ threads = 0 /\ handed = {} /\ log = <<>> /\ found = {}
    /\ touched = FALSE /\ caught = 0 /\ abortCause = "none"
    /\ IdlePar /\ IdleThread

Abort(cause) == pc' = "aborted" /\ abortCause' = cause

\* lines 64-67: open(logfile, 'w').close() inside output_data_dir
CreateLog ==
    /\ mode = "run" /\ pc = "start"
    /\ IF outDirExists
       THEN /\ logCreated' = TRUE /\ pc' = "build" /\ UNCHANGED abortCause
       ELSE /\ Abort("logfile") /\ UNCHANGED logCreated
    /\ UNCHANGED <<mode, nfiles, outDirExists, ensured, automaton, usedAut, dir, gz,
                   tmp, procQueue, cur, threads, handed, log, found, touched, caught>>
    /\ UNCHANGED <<parVars, threadVars>>

\* line 70: get_bad_strings_automaton(...) returns the automaton or raises
BuildAutomaton ==
    /\ mode = "run" /\ pc = "build"
    /\ \/ automaton' = automaton + 1 /\ pc' = "mkout" /\ UNCHANGED abortCause
       \/ Abort("dictionary") /\ UNCHANGED automaton
    /\ UNCHANGED <<mode, nfiles, outDirExists, ensured, logCreated, usedAut, dir, gz,
                   tmp, procQueue, cur, threads, handed, log, found, touched, caught>>
    /\ UNCHANGED <<parVars, threadVars>>

\* lines 73-78: make sure the output dir exists, open the log, list the dirs
EnsureOutDir ==
    /\ mode = "run" /\ pc = "mkout"
    /\ outDirExists' = TRUE /\ ensured' = TRUE
    /\ pc' = "dirloop"
    /\ UNCHANGED <<mode, nfiles, logCreated, automaton, usedAut, dir, gz, tmp,
                   procQueue, cur, threads, handed, log, found, touched, caught,
                   abortCause>>
    /\ UNCHANGED <<parVars, threadVars>>

\* line 79: next usenet_dir, or line 127 after the last one
NextDir ==
    /\ mode = "run" /\ pc = "dirloop"
    /\ IF dir < MaxDirs
       THEN dir' = dir + 1 /\ pc' = "clear"
       ELSE pc' = "finished" /\ UNCHANGED dir
    /\ UNCHANGED <<mode, nfiles, outDirExists, ensured, logCreated, automaton, usedAut,
                   gz, tmp, procQueue, cur, threads, handed, log, found, touched,
                   caught, abortCause>>
    /\ UNCHANGED <<parVars, threadVars>>

\* Emptied with the rmtree left out: the scratch directory is left as it is.
EmptiedNot(t) == t

\* lines 81-83: shutil.rmtree + os.makedirs leave an empty scratch directory
Emptied(t) == {}

ClearTmp ==
    /\ mode = "run" /\ pc = "clear"
    /\ touched' = TRUE
    /\ \/ tmp' = Emptied(tmp) /\ gz' = 0 /\ pc' = "gunzip" /\ UNCHANGED abortCause
       \/ Abort("clear") /\ UNCHANGED <<tmp, gz>>
    /\ UNCHANGED <<mode, nfiles, outDirExists, ensured, logCreated, automaton, usedAut,
                   dir, procQueue, cur, threads, handed, log, found, caught>>
    /\ UNCHANGED <<parVars, threadVars>>

\* open(os.path.join(tmpdir, filename), 'wb+'): a file of that name is replaced
Stored(t, d, k) ==
    {x \in t : x.name # ScratchName(RawName(k))}
        \cup {[name |-> ScratchName(RawName(k)), src |-> d, k |-> k]}

\* The glob of line 98 as a sequence. glob leaves the order to the file
\* system; the model takes the order of the directory entries.
RECURSIVE Listing(_)
Listing(t) ==
    IF t = {} THEN <<>>
    ELSE LET x == CHOOSE y \in t : \A z \in t : y.k <= z.k
         IN <<x>> \o Listing(t \ {x})

\* lines 86-93: one entry of the directory; after the last one, lines 96-98
Gunzip ==
    /\ mode = "run" /\ pc = "gunzip"
    /\ IF gz <= nfiles[dir]
       THEN IF EndsWith(RawName(gz), MboxGzSuffix)
            THEN /\ touched' = TRUE
                 /\ \/ /\ tmp' = Stored(tmp, dir, gz)
                       /\ gz' = gz + 1
                       /\ UNCHANGED <<pc, abortCause>>
                    \/ Abort("decompress") /\ UNCHANGED <<tmp, gz>>
                 /\ UNCHANGED procQueue
            ELSE /\ gz' = gz + 1
                 /\ UNCHANGED <<tmp, pc, abortCause, touched, procQueue>>
       ELSE /\ procQueue' = Listing(tmp)
            /\ pc' = "proc"
            /\ UNCHANGED <<tmp, gz, abortCause, touched>>
    /\ UNCHANGED <<mode, nfiles, outDirExists, ensured, logCreated, automaton, usedAut,
                   dir, cur, threads, handed, log, found, caught>>
    /\ UNCHANGED <<parVars, threadVars>>

\* lines 98-100: next file of the scratch directory
NextFile ==
    /\ mode = "run" /\ pc = "proc"
    /\ IF procQueue = <<>>
       THEN pc' = "dirloop" /\ UNCHANGED <<procQueue, cur, found>>
       ELSE /\ procQueue' = Tail(procQueue)
            /\ IF EndsWith(Head(procQueue).name, MboxSuffix)
               THEN /\ cur' = Head(procQueue)
                    /\ found' = found \cup {[dir |-> dir, file |-> Head(procQueue).name,
                                               src |-> Head(procQueue).src]}
                    /\ pc' = "forum"
               ELSE UNCHANGED <<cur, found, pc>>
    /\ UNCHANGED <<mode, nfiles, outDirExists, ensured, logCreated, automaton, usedAut,
                   dir, gz, tmp, threads, handed, log, touched, caught, abortCause>>
    /\ UNCHANGED <<parVars, threadVars>>

\* SpamAutomaton with the build moved into the loop: another automaton for
\* each directory.
SpamAutomatonPerDir(built, d) == built + d

\* line 101: spam_automaton=bad_strings_automaton
SpamAutomaton(built, d) == built

\* line 101: mbox.process_forum returns the threads or raises
ProcessForum ==
    /\ mode = "run" /\ pc = "forum"
    /\ usedAut' = usedAut \cup {SpamAutomaton(automaton, dir)}
    /\ touched' = TRUE
    /\ \/ threads' = ThreadsIn(cur.src, cur.k) /\ pc' = "export" /\ UNCHANGED caught
       \/ /\ caught < MaxFailures
          /\ caught' = caught + 1 /\ pc' = "except_forum" /\ UNCHANGED threads
    /\ UNCHANGED <<mode, nfiles, outDirExists, ensured, logCreated, automaton, dir, gz,
                   tmp, procQueue, cur, handed, log, found, abortCause>>
    /\ UNCHANGED <<parVars, threadVars>>

\* lines 102-118: export_string / get_metadata / json.dumps per thread, the frame
\* and the table; nothing leaves the function here
Export ==
    /\ mode = "run" /\ pc = "export"
    /\ \/ pc' = "write" /\ UNCHANGED caught
       \/ /\ caught < MaxFailures
          /\ caught' = caught + 1 /\ pc' = "except_export"
    /\ UNCHANGED <<mode, nfiles, outDirExists, ensured, logCreated, automaton, usedAut,
                   dir, gz, tmp, procQueue, cur, threads, handed, log, found, touched,
                   abortCause>>
    /\ UNCHANGED <<parVars, threadVars>>

\* out_file = '<basename(usenet_dir)>.parquet' (line 96)
OutFile(d) == d

\* line 119: pq.write_to_dataset(forum_table, root_path=out_file) receives the
\* table, and returns or raises
WriteDataset ==
    /\ mode = "run" /\ pc = "write"
    /\ handed' = handed \cup {[out |-> OutFile(dir), file |-> cur.name,
                               src |-> cur.src, n |-> threads]}
    /\ \/ pc' = "logok" /\ UNCHANGED caught
       \/ /\ caught < MaxFailures
          /\ caught' = caught + 1 /\ pc' = "except_write"
    /\ UNCHANGED <<mode, nfiles, outDirExists, ensured, logCreated, automaton, usedAut,
                   dir, gz, tmp, procQueue, cur, threads, log, found, touched,
                   abortCause>>
    /\ UNCHANGED <<parVars, threadVars>>

Line(kind, n, msg) ==
    [kind |-> kind, file |-> cur.name, dir |-> dir, n |-> n, msg |-> msg]

\* line 121: logf.write(f'Success {file}: includes {len(threads)}\n')
LogSuccess ==
    /\ mode = "run" /\ pc = "logok"
    /\ \/ log' = Append(log, Line("Success", threads, "")) /\ pc' = "proc"
          /\ UNCHANGED caught
       \/ /\ caught < MaxFailures
          /\ caught' = caught + 1 /\ pc' = "except_log" /\ UNCHANGED log
    /\ UNCHANGED <<mode, nfiles, outDirExists, ensured, logCreated, automaton, usedAut,
                   dir, gz, tmp, procQueue, cur, threads, handed, found, touched,
                   abortCause>>
    /\ UNCHANGED <<parVars, threadVars>>

ExceptPcs == {"except_forum", "except_export", "except_write", "except_log"}

\* lines 123-125: logf.write('Error {file}: {e}\n'); a failure here leaves process
LogError ==
    /\ mode = "run" /\ pc \in ExceptPcs
    /\ \/ log' = Append(log, Line("Error", -1, pc)) /\ pc' = "proc"
          /\ UNCHANGED abortCause
       \/ Abort("logging") /\ UNCHANGED log
    /\ UNCHANGED <<mode, nfiles, outDirExists, ensured, logCreated, automaton, usedAut,
                   dir, gz, tmp, procQueue, cur, threads, handed, found, touched,
                   caught>>
    /\ UNCHANGED <<parVars, threadVars>>

Next ==
    \/ CreateLog
    \/ BuildAutomaton
    \/ EnsureOutDir
    \/ NextDir
    \/ ClearTmp
    \/ Gunzip
    \/ NextFile
    \/ ProcessForum
    \/ Export
    \/ WriteDataset
    \/ LogSuccess
    \/ LogError

Spec == Init /\ [][Next]_vars

\* ---------------------------------------------------------------- claims on Spec
InTry == pc \in {"forum", "export", "write", "logok"} \cup ExceptPcs

InDir == pc \in {"gunzip", "proc"} \/ InTry

LinesOf(f) == {i \in DOMAIN log : log[i].dir = f.dir /\ log[i].file = f.file}

\* C1: no failure while handling one archive file (clearing the scratch
\* directory, decompressing, processing, exporting, writing, logging) makes
\* the run stop: process is never left by an exception of one of these steps.
C1_NoFileFailureAborts == abortCause \notin {"clear", "decompress", "logging"}

\* C2: a file for which an Error line was logged has handed nothing to the
\* writer sink, whichever step of the try block raised.
C2_NoOutputForFailedFile ==
    \A i \in DOMAIN log :
        log[i].kind = "Error" =>
            ~ \E h \in handed : h.out = OutFile(log[i].dir) /\ h.file = log[i].file

\* C3: every .mbox file the loop has found in the scratch directory and is
\* done with has exactly one report line, Success or Error; a Success line is
\* there only once the file's pairs were handed to the sink, and it carries
\* their number.
C3_ExactlyOneReportLine ==
    \A f \in found :
        /\ Cardinality(LinesOf(f)) <= 1
        /\ (InTry /\ f.dir = dir /\ f.file = cur.name) \/ Cardinality(LinesOf(f)) = 1
        /\ \A i \in LinesOf(f) :
              log[i].kind = "Success" =>
                  \E h \in handed :
                      h.out = OutFile(f.dir) /\ h.file = f.file /\ h.n = log[i].n

\* C4: the automaton is built once, before any archive or scratch file is
\* touched; every call of mbox.process_forum gets that automaton; a failure
\* to load the dictionary stops the run with no file touched.
C4_AutomatonBuiltOnceFirst ==
    /\ automaton <= 1
    /\ touched => automaton = 1
    /\ usedAut \subseteq {1}
    /\ abortCause = "dictionary" =>
           ~touched /\ tmp = {} /\ found = {} /\ handed = {} /\ usedAut = {}

\* C4 happens: a run finished after files of two directories went through
\* mbox.process_forum, all with the one automaton.
C4_Witness ==
    /\ pc = "finished" /\ usedAut = {1}
    /\ \E f, g \in found : f.dir # g.dir

\* C9: while the files of a directory are decompressed and processed, the
\* scratch directory holds only files decompressed from that directory; the
\* output of a directory receives threads of its own archives only, and no
\* archive is processed under another directory.
C9_ScratchOfCurrentDirOnly ==
    /\ InDir => \A x \in tmp : x.src = dir
    /\ InTry => cur.src = dir
    /\ \A h \in handed : h.src = h.out
    /\ \A f \in found : f.src = f.dir

\* C9 happens: the second directory processes a file whose name the first
\* directory has already written output for.
C9_Witness ==
    /\ pc = "write" /\ dir = 2 /\ cur.src = 2
    /\ \E h \in handed : h.out = OutFile(1) /\ h.file = cur.name

\* C10: nothing is written into output_data_dir (the log file, its lines,
\* the parquet output) before the step that makes sure the directory exists,
\* and process gets past the creation of the log file when the directory
\* does not exist yet.
C10_WritesAfterEnsure ==
    /\ (logCreated \/ log # <<>> \/ handed # {}) => ensured
    /\ abortCause # "logfile"

\* ======================================================================
\* The body of the loop of line 79 run by one worker per usenet directory,
\* all workers with the same config.tmpdir
\* ======================================================================
Workers == Dirs

InitPar ==
    /\ mode = "par"
    /\ pc = "idle"
    /\ nfiles \in [Dirs -> 1..MaxFiles]
    /\ outDirExists = TRUE
    /\ ensured = FALSE /\ logCreated = FALSE /\ automaton = 0 /\ usedAut = {}
    /\ dir = 0 /\ gz = 0 /\ tmp = {} /\ procQueue = <<>> /\ cur = NoFile
    /\ threads = 0 /\ handed = {} /\ log = <<>> /\ found = {}
    /\ touched = FALSE /\ caught = 0 /\ abortCause = "none"
    /\ wk = [w \in Workers |-> [pc |-> "clear", gz |-> 0, queue |-> <<>>, cur |-> NoFile]]
    /\ interfered = {}
    /\ IdleThread

ParFrame ==
    UNCHANGED <<mode, pc, nfiles, outDirExists, ensured, logCreated, automaton,
                usedAut, dir, gz, procQueue, cur, threads, log, found, touched,
                caught, abortCause, threadVars>>

\* lines 81-83 by worker w
WClear(w) ==
    /\ mode = "par" /\ wk[w].pc = "clear"
    /\ interfered' = interfered \cup
           {[how |-> "deleted", by |-> w, owner |-> x.src] : x \in {y \in tmp : y.src # w}}
    /\ tmp' = Emptied(tmp)
    /\ wk' = [wk EXCEPT ![w].pc = "gunzip", ![w].gz = 0]
    /\ UNCHANGED handed
    /\ ParFrame

\* lines 86-98 by worker w
WGunzip(w) ==
    /\ mode = "par" /\ wk[w].pc = "gunzip"
    /\ IF wk[w].gz <= nfiles[w]
       THEN IF EndsWith(RawName(wk[w].gz), MboxGzSuffix)
            THEN /\ tmp' = Stored(tmp, w, wk[w].gz)
                 /\ interfered' = interfered \cup
                        {[how |-> "overwritten", by |-> w, owner |-> x.src] :
                            x \in {y \in tmp : /\ y.src # w
                                               /\ y.name = ScratchName(RawName(wk[w].gz))}}
                 /\ wk' = [wk EXCEPT ![w].gz = @ + 1]
            ELSE /\ wk' = [wk EXCEPT ![w].gz = @ + 1]
                 /\ UNCHANGED <<tmp, interfered>>
       ELSE /\ wk' = [wk EXCEPT ![w].pc = "proc", ![w].queue = Listing(tmp)]
            /\ UNCHANGED <<tmp, interfered>>
    /\ UNCHANGED handed
    /\ ParFrame

\* lines 98-100 by worker w
WNextFile(w) ==
    /\ mode = "par" /\ wk[w].pc = "proc"
    /\ IF wk[w].queue = <<>>
       THEN wk' = [wk EXCEPT ![w].pc = "done"]
       ELSE IF EndsWith(Head(wk[w].queue).name, MboxSuffix)
            THEN wk' = [wk EXCEPT ![w].pc = "forum", ![w].cur = Head(wk[w].queue),
                                  ![w].queue = Tail(wk[w].queue)]
            ELSE wk' = [wk EXCEPT ![w].queue = Tail(wk[w].queue)]
    /\ UNCHANGED <<tmp, handed, interfered>>
    /\ ParFrame

\* lines 101-125 by worker w: the file is read from the scratch directory as
\* it is now; a file that is gone makes process_forum raise
WProcess(w) ==
    /\ mode = "par" /\ wk[w].pc = "forum"
    /\ LET here == {x \in tmp : x.name = wk[w].cur.name}
       IN /\ handed' = handed \cup
                 {[out |-> OutFile(w), file |-> x.name, src |-> x.src,
                   n |-> ThreadsIn(x.src, x.k)] : x \in here}
          /\ interfered' = interfered \cup
                 {[how |-> "processed", by |-> w, owner |-> x.src] :
                     x \in {y \in here : y.src # w}}
    /\ wk' = [wk EXCEPT ![w].pc = "proc"]
    /\ UNCHANGED tmp
    /\ ParFrame

NextPar ==
    \E w \in Workers :
        \/ WClear(w)
        \/ WGunzip(w)
        \/ WNextFile(w)
        \/ WProcess(w)

SpecPar == InitPar /\ [][NextPar]_vars

Ids == 1..MaxRecords

\* An id that no record of the file has.
UnknownId == 99

\* timestamp of a record whose date is absent or unparsable
NoTime == 0

\* the window of the subject fallback, in the unit of the timestamps
SubjectWindow == 1

RECURSIVE SeqsUpTo(_, _)
SeqsUpTo(S, n) ==
    IF n = 0 THEN {<<>>}
    ELSE SeqsUpTo(S, n - 1) \cup
         {Append(q, x) : q \in {r \in SeqsUpTo(S, n - 1) : Len(r) = n - 1}, x \in S}

Subjects == {<<"x">>, <<"Re:", "X">>, <<"y">>}

LowerToken(t) ==
    IF t = "X" THEN "x" ELSE IF t = "Y" THEN "y" ELSE IF t = "Re:" THEN "re:"
    ELSE IF t = "Fwd:" THEN "fwd:" ELSE t

\* normalizedSubject: reply/forward prefixes stripped, lowercase
RECURSIVE NormalizedSubject(_)
NormalizedSubject(subj) ==
    IF subj # <<>> /\ LowerToken(Head(subj)) \in {"re:", "fwd:"}
    THEN NormalizedSubject(Tail(subj))
    ELSE [i \in 1..Len(subj) |-> LowerToken(subj[i])]

MailRecords ==
    [inReplyTo : {0} \cup Ids \cup {UnknownId},
     references : SeqsUpTo(Ids \cup {UnknownId}, MaxRefs),
     subject : Subjects,
     timestamp : {NoTime} \cup (1..MaxTime)]

\* the last entry of references that names a known id (0: none)
RECURSIVE LastKnown(_)
LastKnown(refs) ==
    IF refs = <<>> THEN 0
    ELSE IF refs[Len(refs)] \in Ids THEN refs[Len(refs)]
    ELSE LastKnown(SubSeq(refs, 1, Len(refs) - 1))

\* the records the subject fallback may attach r to
SubjectCandidates(recs, r) ==
    {q \in Ids :
        /\ q # r
        /\ NormalizedSubject(recs[q].subject) = NormalizedSubject(recs[r].subject)
        /\ recs[r].timestamp # NoTime /\ recs[q].timestamp # NoTime
        /\ recs[q].timestamp < recs[r].timestamp
        /\ recs[r].timestamp - recs[q].timestamp <= SubjectWindow}

\* the most recent of them (0: none)
SubjectParent(recs, r) ==
    IF SubjectCandidates(recs, r) = {} THEN 0
    ELSE CHOOSE q \in SubjectCandidates(recs, r) :
            \A p \in SubjectCandidates(recs, r) :
                \/ recs[p].timestamp < recs[q].timestamp
                \/ recs[p].timestamp = recs[q].timestamp /\ p <= q

\* step 2 of assemble: (a) inReplyTo, (b) references, (c) subject, (d) root;
\* a record that names itself has no resolvable parent
ResolveParent(recs, r) ==
    LET cand == IF recs[r].inReplyTo \in Ids THEN recs[r].inReplyTo
                ELSE IF LastKnown(recs[r].references) # 0
                     THEN LastKnown(recs[r].references)
                     ELSE SubjectParent(recs, r)
    IN IF cand = r THEN 0 ELSE cand

\* step 3: a root whose headers name a parent the file does not hold
IsOrphan(recs, par, r) ==
    /\ par[r] = 0
    /\ \/ recs[r].inReplyTo = UnknownId
       \/ \E i \in DOMAIN recs[r].references : recs[r].references[i] = UnknownId

\* step 3: the ids connected to those of S by parent edges
RECURSIVE Component(_, _)
Component(par, S) ==
    LET T == S \cup {j \in Ids : \E i \in S : par[i] = j \/ par[j] = i}
    IN IF T = S THEN S ELSE Component(par, T)

\* step 4: missing timestamps sort after all timestamps
TimeKey(recs, r) ==
    IF recs[r].timestamp = NoTime THEN MaxTime + 1 ELSE recs[r].timestamp

Before(recs, a, b) ==
    \/ TimeKey(recs, a) < TimeKey(recs, b)
    \/ TimeKey(recs, a) = TimeKey(recs, b) /\ a < b

\* step 4: by timestamp ascending, ties by id
RECURSIVE Ordered(_, _)
Ordered(recs, S) ==
    IF S = {} THEN <<>>
    ELSE LET m == CHOOSE x \in S : \A y \in S \ {x} : Before(recs, x, y)
         IN <<m>> \o Ordered(recs, S \ {m})

InitAssemble ==
    /\ mode = "assemble"
    /\ IdleProc /\ IdlePar
    /\ records \in [Ids -> MailRecords]
    /\ parent = <<>> /\ orphan = <<>> /\ order = <<>> /\ thread = <<>>
    /\ marks = <<>> /\ exported = <<>> /\ meta = <<>>
    /\ tpc = "parsed"

\* steps 1-3 of assemble
LinkRecords ==
    /\ mode = "assemble" /\ tpc = "parsed"
    /\ parent' = [r \in Ids |-> ResolveParent(records, r)]
    /\ orphan' = [r \in Ids |-> IsOrphan(records, parent', r)]
    /\ tpc' = "linked"
    /\ UNCHANGED <<mode, procVars, parVars, records, order, thread, marks, exported, meta>>

\* step 4 of assemble
OrderThreads ==
    /\ mode = "assemble" /\ tpc = "linked"
    /\ order' = [r \in Ids |-> Ordered(records, Component(parent, {r}))]
    /\ tpc' = "assembled"
    /\ UNCHANGED <<mode, procVars, parVars, records, parent, orphan, thread, marks,
                   exported, meta>>

NextAssemble ==
    \/ LinkRecords
    \/ OrderThreads

SpecAssemble == InitAssemble /\ [][NextAssemble]_vars

PosIn(q, x) == CHOOSE i \in 1..Len(q) : q[i] = x

\* C5: a record R whose inReplyTo names another record P of the file is in
\* P's thread and comes after P in the thread's export order, whatever the
\* timestamps of the two.
C5_ReplyAfterParent ==
    tpc = "assembled" =>
        \A r \in Ids : \A p \in Ids :
            (r # p /\ records[r].inReplyTo = p) =>
                /\ order[r] = order[p]
                /\ PosIn(order[r], r) > PosIn(order[r], p)

RECURSIVE ParentAt(_, _, _)
ParentAt(par, r, n) ==
    IF n = 0 \/ r = 0 THEN r ELSE ParentAt(par, par[r], n - 1)

\* C6: the resolved parents form a forest: following parent pointers from a
\* record never comes back to it.
C6_ParentGraphIsForest ==
    tpc \in {"linked", "assembled"} =>
        \A r \in Ids : \A n \in 1..MaxRecords : ParentAt(parent, r, n) # r

\* ======================================================================
\* PatternAutomaton.match, ContentFilter.filter, ThreadExporter
\* ======================================================================
\* the disallowed-string dictionary the automaton is built from
Dictionary == {<<"s", "p", "a", "m">>}

\* bodies of mail records: clean, matching in another case, not matching
\* because of inner whitespace, empty
Bodies == {<<"h", "i">>, <<"S", "p", "A", "M", "!">>, <<"s", "p", " ", "a", "m">>, <<>>}

LowerChar(c) ==
    IF c = "S" THEN "s" ELSE IF c = "P" THEN "p" ELSE IF c = "A" THEN "a"
    ELSE IF c = "M" THEN "m" ELSE IF c = "H" THEN "h" ELSE IF c = "I" THEN "i"
    ELSE c

Lower(text) == [i \in 1..Len(text) |-> LowerChar(text[i])]

Occurs(pat, text) ==
    \E i \in 0..(Len(text) - Len(pat)) : SubSeq(text, i + 1, i + Len(pat)) = pat

\* match(text): some pattern occurs in the lowercased text
Match(patterns, text) == \E pat \in patterns : Occurs(pat, Lower(text))

\* the ancestors of r in the thread (r excluded)
RECURSIVE Ancestors(_, _, _)
Ancestors(par, r, n) ==
    IF n = 0 \/ par[r] = 0 THEN {}
    ELSE {par[r]} \cup Ancestors(par, par[r], n - 1)

\* Mark with structural removal: a dropped record takes its descendants with it.
MarkPrunesSubtree(recs, par, r) ==
    IF \E a \in {r} \cup Ancestors(par, r, Len(recs)) : Match(Dictionary, recs[a].body)
    THEN "Dropped" ELSE "Kept"

\* filter: the marker of one record of the thread
Mark(recs, par, r) ==
    IF Match(Dictionary, recs[r].body) THEN "Dropped" ELSE "Kept"

\* exportText: the blocks of the surviving records, in thread order
RECURSIVE Blocks(_, _, _)
Blocks(thr, mk, i) ==
    IF i > Len(thr) THEN <<>>
    ELSE IF mk[i] = "Kept" THEN <<thr[i]>> \o Blocks(thr, mk, i + 1)
    ELSE Blocks(thr, mk, i + 1)

\* exportMetadata
Metadata(thr, mk) ==
    [messageCount |-> Cardinality({i \in DOMAIN mk : mk[i] = "Kept"}),
     droppedCount |-> Cardinality({i \in DOMAIN mk : mk[i] = "Dropped"}),
     excluded |-> \A i \in DOMAIN mk : mk[i] = "Dropped"]

Perms(n) == {q \in [1..n -> 1..n] : \A i, j \in 1..n : q[i] = q[j] => i = j}

\* parent functions over 1..n with one root and no cycle: one thread
Trees(n) ==
    {par \in [1..n -> 0..n] :
        /\ Cardinality({r \in 1..n : par[r] = 0}) = 1
        /\ \A r \in 1..n : \A k \in 1..n : ParentAt(par, r, k) # r}

InitFilter ==
    /\ mode = "filter"
    /\ IdleProc /\ IdlePar
    /\ \E n \in 1..MaxThreadLen :
          /\ records \in [1..n -> [body : Bodies]]
          /\ parent \in Trees(n)
          /\ thread \in Perms(n)
    /\ orphan = <<>> /\ order = <<>>
    /\ marks = <<>> /\ exported = <<>> /\ meta = <<>>
    /\ tpc = "assembled"

\* ContentFilter.filter
Filter ==
    /\ mode = "filter" /\ tpc = "assembled"
    /\ marks' = [i \in 1..Len(thread) |-> Mark(records, parent, thread[i])]
    /\ tpc' = "filtered"
    /\ UNCHANGED <<mode, procVars, parVars, records, parent, orphan, order, thread,
                   exported, meta>>

\* ThreadExporter.exportText and exportMetadata
ExportThread ==
    /\ mode = "filter" /\ tpc = "filtered"
    /\ exported' = Blocks(thread, marks, 1)
    /\ meta' = Metadata(thread, marks)
    /\ tpc' = "exported"
    /\ UNCHANGED <<mode, procVars, parVars, records, parent, orphan, order, thread,
                   marks>>

NextFilter ==
    \/ Filter
    \/ ExportThread

SpecFilter == InitFilter /\ [][NextFilter]_vars

Spam(r) == Match(Dictionary, records[r].body)

IsSurvivor(r) == ~Spam(r)

\* C7: the export of a thread is the thread's ordered sequence with exactly
\* the records whose body matches deleted: every surviving record, the
\* descendants of dropped records included, is exported, in the thread's
\* order; messageCount + droppedCount is the thread's record count.
C7_DropKeepsSurvivors ==
    tpc = "exported" =>
        /\ exported = SelectSeq(thread, IsSurvivor)
        /\ \A r \in DOMAIN records :
              (~Spam(r) /\ \E a \in Ancestors(parent, r, Len(thread)) : Spam(a)) =>
                  \E i \in DOMAIN exported : exported[i] = r
        /\ meta.messageCount + meta.droppedCount = Len(thread)
        /\ meta.droppedCount = Cardinality({r \in DOMAIN records : Spam(r)})

\* C7 happens: a dropped record has a surviving child that is exported
\* next to another survivor.
C7_Witness ==
    /\ tpc = "exported" /\ Len(exported) >= 2 /\ meta.droppedCount >= 1
    /\ \E r \in DOMAIN records : ~Spam(r) /\ parent[r] # 0 /\ Spam(parent[r])

====
